---- MODULE Spec2Model ----
(***************************************************************************)
(* fritzconnection: the known-hosts library (lib/fritzhosts.py), the       *)
(* wake-on-LAN command (cli/fritzwol.py) and the call-forwarding parser    *)
(* (fritzcallforwarding.py).                                               *)
(*                                                                         *)
(* Python values are written as follows.  A str is the sequence of its     *)
(* characters (<<"p","c">> is "pc", <<>> is ""), so that str.lower() and   *)
(* int() are computed character by character.  None is a value that is no  *)
(* str.  A dict is a record.  What a call gives back is a record: Return(v)*)
(* for "return v", ReturnNone for a call that returns None and Raise(e)    *)
(* for an exception of class e leaving the call.                           *)
(***************************************************************************)
EXTENDS Integers, Sequences, FiniteSets

VARIABLES
    hosts,      \* the router's table of known hosts, in index order
    doc,        \* the router's deflection list, the parsed NewDeflectionList
    gens,       \* the generator objects made by get_generic_host_entries()
    pc,         \* "idle" before the library call of this run, "done" after
    op,         \* the library call made: its name and its arguments
    calls,      \* the FritzHosts methods the call has invoked, in order
    result      \* what the call gave back

vars == <<hosts, doc, gens, pc, op, calls, result>>

----------------------------------------------------------------------------
\* Bounds of the model.

MaxHosts == 2       \* longest host table
MaxItems == 2       \* most child elements of the deflection list
NumGens == 2        \* generator objects alive at the same time
MaxSpent == 1       \* next() requests made on a generator that has ended

----------------------------------------------------------------------------
\* Python values.

None == <<"None">>

Return(v) == [kind |-> "return", value |-> v]

ReturnNone == [kind |-> "return", none |-> TRUE]

Raise(e) == [kind |-> "raise", error |-> e]

\* bool(v) of a str or None, as `if v:` and `elif v:` test it.
Truthy(v) == v # None /\ v # <<>>

LowerChar(c) ==
    CASE c = "P" -> "p"
      [] c = "C" -> "c"
      [] c = "N" -> "n"
      [] c = "A" -> "a"
      [] c = "S" -> "s"
      [] c = "T" -> "t"
      [] c = "V" -> "v"
      [] OTHER -> c

\* str.lower()
Lower(s) == [i \in DOMAIN s |-> LowerChar(s[i])]

Digit(n) ==
    CASE n = 0 -> "0" [] n = 1 -> "1" [] n = 2 -> "2" [] n = 3 -> "3"
      [] n = 4 -> "4" [] n = 5 -> "5" [] n = 6 -> "6" [] n = 7 -> "7"
      [] n = 8 -> "8" [] OTHER -> "9"

----------------------------------------------------------------------------
\* The router behind fc.call_action.

\* No fault: the router answers the call as its tables say.
NoFault == "none"

\* The exception classes a remote action can raise besides the IndexError
\* of an index past the host table.
FaultKinds ==
    {"FritzArgumentError", "FritzLookUpError", "FritzActionError",
     "FritzAuthorizationError"}

HostNames == {<<"p", "c">>, <<"P", "C">>, <<"n", "a", "s">>}

\* The dict the router answers for the k-th host (k = index + 1).  MAC and
\* IP address are the host's own; name and activity vary.  The last key
\* stands for whatever a firmware answers besides the seven standard keys.
HostEntry(k, name, active) ==
    [NewIPAddress |-> <<"i", Digit(k)>>,
     NewHostName |-> name,
     NewMACAddress |-> <<"m", Digit(k)>>,
     NewActive |-> active,
     NewInterfaceType |-> <<"e", "t", "h">>,
     NewAddressSource |-> <<"D", "H", "C", "P">>,
     NewLeaseTimeRemaining |-> 100 + k,
     NewX_AVM_DE_Speed |-> 1000]

HostTables ==
    UNION {[1..n -> HostNames \X BOOLEAN] : n \in 0..MaxHosts}

TableOf(f) == [k \in DOMAIN f |-> HostEntry(k, f[k][1], f[k][2])]

\* The faults of one library call: the at-th method the call invokes on
\* the FritzHosts object fails with an exception of class kind.
Envs(n) ==
    {[at |-> 0, kind |-> NoFault]}
        \cup [at : 1..(n + 2), kind : FaultKinds]

FaultOf(env, log) == IF env.at = Len(log) + 1 THEN env.kind ELSE NoFault

----------------------------------------------------------------------------
\* class FritzHosts (lib/fritzhosts.py).  A method is an operator from its
\* arguments, and the fault of the remote action it performs, to what it
\* gives back.

\* The entries of the call log.
CallEntries == [method |-> "get_generic_host_entries"]

CallEntry(index) == [method |-> "get_generic_host_entry", index |-> index]

CallByIp(ip) == [method |-> "get_specific_host_entry_by_ip", ip |-> ip]

CallByMac(mac) == [method |-> "get_specific_host_entry", mac_address |-> mac]

CallWake(mac) == [method |-> "wakeonlan_host", mac_address |-> mac]

get_generic_host_entry(index, fault) ==
    IF fault # NoFault THEN Raise(fault)
    ELSE IF index < Len(hosts) THEN Return(hosts[index + 1])
    ELSE Raise("IndexError")

get_specific_host_entry(mac_address, fault) ==
    IF fault # NoFault THEN Raise(fault)
    ELSE IF \E k \in DOMAIN hosts : hosts[k].NewMACAddress = mac_address
    THEN Return(hosts[CHOOSE k \in DOMAIN hosts :
                          hosts[k].NewMACAddress = mac_address])
    ELSE Raise("FritzLookUpError")

get_specific_host_entry_by_ip(ip, fault) ==
    IF fault # NoFault THEN Raise(fault)
    ELSE IF \E k \in DOMAIN hosts : hosts[k].NewIPAddress = ip
    THEN Return(hosts[CHOOSE k \in DOMAIN hosts : hosts[k].NewIPAddress = ip])
    ELSE Raise("FritzLookUpError")

wakeonlan_host(mac_address, fault) ==
    IF fault # NoFault THEN Raise(fault) ELSE ReturnNone

\* A generator object of get_generic_host_entries(): not yet started
\* ("created"), suspended at the yield of item index, or finished.
NewGenerator == [state |-> "created", index |-> 0]

FinishedGenerator(g) == [state |-> "finished", index |-> g.index]

\* Resume without the except clause: the IndexError leaves the generator.
ResumeUncaught(g, fault) ==
    IF g.state = "finished"
    THEN [gen |-> g, out |-> Raise("StopIteration"), called |-> <<>>]
    ELSE LET index == IF g.state = "created" THEN 0 ELSE g.index + 1
             r == get_generic_host_entry(index, fault)
         IN  IF r.kind = "return"
             THEN [gen |-> [state |-> "suspended", index |-> index],
                   out |-> [kind |-> "yield", value |-> r.value],
                   called |-> <<index>>]
             ELSE [gen |-> FinishedGenerator(g),
                   out |-> Raise(r.error),
                   called |-> <<index>>]

\* Resume that asks for the entry after the one it yields as well.
ResumeReadAhead(g, fault) ==
    IF g.state = "finished"
    THEN [gen |-> g, out |-> Raise("StopIteration"), called |-> <<>>]
    ELSE LET index == IF g.state = "created" THEN 0 ELSE g.index + 1
             r == get_generic_host_entry(index, fault)
         IN  IF r.kind = "return"
             THEN [gen |-> [state |-> "suspended", index |-> index],
                   out |-> [kind |-> "yield", value |-> r.value],
                   called |-> <<index, index + 1>>]
             ELSE IF r.error = "IndexError"
             THEN [gen |-> FinishedGenerator(g),
                   out |-> Raise("StopIteration"),
                   called |-> <<index>>]
             ELSE [gen |-> FinishedGenerator(g),
                   out |-> Raise(r.error),
                   called |-> <<index>>]

\* next(g): runs the body of get_generic_host_entries from where it is
\* suspended to the next yield or to its end.  called holds the indices
\* asked of get_generic_host_entry on the way.
Resume(g, fault) ==
    IF g.state = "finished"
    THEN [gen |-> g, out |-> Raise("StopIteration"), called |-> <<>>]
    ELSE LET index == IF g.state = "created" THEN 0 ELSE g.index + 1
             r == get_generic_host_entry(index, fault)
         IN  IF r.kind = "return"
             THEN [gen |-> [state |-> "suspended", index |-> index],
                   out |-> [kind |-> "yield", value |-> r.value],
                   called |-> <<index>>]
             ELSE IF r.error = "IndexError"
             THEN [gen |-> FinishedGenerator(g),
                   out |-> Raise("StopIteration"),
                   called |-> <<index>>]
             ELSE [gen |-> FinishedGenerator(g),
                   out |-> Raise(r.error),
                   called |-> <<index>>]

\* get_host_status with FritzArgumentError missing from the except clause.
get_host_status_lookup_only(mac_address, env) ==
    LET r == get_specific_host_entry(mac_address, FaultOf(env, <<>>))
        log == <<CallByMac(mac_address)>>
    IN  IF r.kind = "raise"
        THEN IF r.error \in {"FritzLookUpError"}
             THEN [result |-> ReturnNone, calls |-> log]
             ELSE [result |-> r, calls |-> log]
        ELSE [result |-> Return(r.value.NewActive), calls |-> log]

get_host_status(mac_address, env) ==
    LET r == get_specific_host_entry(mac_address, FaultOf(env, <<>>))
        log == <<CallByMac(mac_address)>>
    IN  IF r.kind = "raise"
        THEN IF r.error \in {"FritzArgumentError", "FritzLookUpError"}
             THEN [result |-> ReturnNone, calls |-> log]
             ELSE [result |-> r, calls |-> log]
        ELSE [result |-> Return(r.value.NewActive), calls |-> log]

\* HostRecord with the values of name and mac taken from each other's key.
HostRecordSwapped(host) ==
    [ip |-> host.NewIPAddress,
     name |-> host.NewMACAddress,
     mac |-> host.NewHostName,
     status |-> host.NewActive,
     interface_type |-> host.NewInterfaceType,
     address_source |-> host.NewAddressSource,
     lease_time_remaining |-> host.NewLeaseTimeRemaining]

\* The dict get_hosts_info builds of one raw entry.
HostRecord(host) ==
    [ip |-> host.NewIPAddress,
     name |-> host.NewHostName,
     mac |-> host.NewMACAddress,
     status |-> host.NewActive,
     interface_type |-> host.NewInterfaceType,
     address_source |-> host.NewAddressSource,
     lease_time_remaining |-> host.NewLeaseTimeRemaining]

\* HostsInfoLoop that takes every exception for the end of the table.
RECURSIVE HostsInfoLoopAnyError(_, _, _, _)
HostsInfoLoopAnyError(index, acc, log, env) ==
    LET r == get_generic_host_entry(index, FaultOf(env, log))
        log2 == Append(log, CallEntry(index))
    IN  IF r.kind = "raise"
        THEN [result |-> Return(acc), calls |-> log2]
        ELSE HostsInfoLoopAnyError(index + 1,
                 Append(acc, HostRecord(r.value)), log2, env)

RECURSIVE HostsInfoLoop(_, _, _, _)
HostsInfoLoop(index, acc, log, env) ==
    LET r == get_generic_host_entry(index, FaultOf(env, log))
        log2 == Append(log, CallEntry(index))
    IN  IF r.kind = "raise"
        THEN IF r.error = "IndexError"
             THEN [result |-> Return(acc), calls |-> log2]
             ELSE [result |-> r, calls |-> log2]
        ELSE HostsInfoLoop(index + 1, Append(acc, HostRecord(r.value)),
                           log2, env)

get_hosts_info(env) == HostsInfoLoop(0, <<>>, <<>>, env)

\* ActiveOf with the condition of the comprehension negated.
RECURSIVE ActiveOfNegated(_)
ActiveOfNegated(list) ==
    IF list = <<>> THEN <<>>
    ELSE (IF ~Head(list).status THEN <<Head(list)>> ELSE <<>>)
             \o ActiveOfNegated(Tail(list))

\* A consumer that takes every item of get_generic_host_entries(), as
\* list(fh.get_generic_host_entries()) or a for statement without break.
RECURSIVE ConsumeLoop(_, _, _, _)
ConsumeLoop(g, acc, log, env) ==
    LET step == Resume(g, FaultOf(env, log))
        log2 == log \o [i \in DOMAIN step.called |-> CallEntry(step.called[i])]
    IN  IF step.out.kind = "yield"
        THEN ConsumeLoop(step.gen, Append(acc, step.out.value), log2, env)
        ELSE IF step.out.error = "StopIteration"
        THEN [result |-> Return(acc), calls |-> log2]
        ELSE [result |-> step.out, calls |-> log2]

get_generic_host_entries(env) ==
    ConsumeLoop(NewGenerator, <<>>, <<CallEntries>>, env)

\* [host for host in list if host["status"]]
RECURSIVE ActiveOf(_)
ActiveOf(list) ==
    IF list = <<>> THEN <<>>
    ELSE (IF Head(list).status THEN <<Head(list)>> ELSE <<>>)
             \o ActiveOf(Tail(list))

get_active_hosts(env) ==
    LET r == get_hosts_info(env)
    IN  IF r.result.kind = "raise" THEN r
        ELSE [result |-> Return(ActiveOf(r.result.value)), calls |-> r.calls]

----------------------------------------------------------------------------
\* wake_host (cli/fritzwol.py).

\* fh.wakeonlan_host(mac), then the print of the MAC woken.
WakeAndPrint(mac, log, env) ==
    [result |-> wakeonlan_host(mac, FaultOf(env, log)),
     calls |-> Append(log, CallWake(mac))]

\* for entry in fh.get_generic_host_entries(): ... break / else: raise
RECURSIVE ScanLoop(_, _, _, _)
ScanLoop(g, device_name, log, env) ==
    LET step == Resume(g, FaultOf(env, log))
        log2 == log \o [i \in DOMAIN step.called |-> CallEntry(step.called[i])]
    IN  IF step.out.kind = "yield"
        THEN IF Lower(step.out.value.NewHostName) = device_name
             THEN [found |-> TRUE, mac |-> step.out.value.NewMACAddress,
                   calls |-> log2]
             ELSE ScanLoop(step.gen, device_name, log2, env)
        ELSE IF step.out.error = "StopIteration"
        THEN [found |-> FALSE, error |-> "FritzArgumentError", calls |-> log2]
        ELSE [found |-> FALSE, error |-> step.out.error, calls |-> log2]

\* WakeByMac that first looks the MAC address up among the known hosts.
WakeByMacValidated(args, env) ==
    LET host == get_specific_host_entry(args.device_mac_address,
                                        FaultOf(env, <<>>))
        log == <<CallByMac(args.device_mac_address)>>
    IN  IF host.kind = "raise"
        THEN [result |-> Raise("FritzArgumentError"), calls |-> log]
        ELSE WakeAndPrint(args.device_mac_address, log, env)

\* Lines 38-39 and 59-60: the MAC address as given.
WakeByMac(args, env) ==
    WakeAndPrint(args.device_mac_address, <<>>, env)

\* WakeByIp without the try statement around the lookup.
WakeByIpUncaught(args, env) ==
    LET host == get_specific_host_entry_by_ip(args.device_ip_address,
                                              FaultOf(env, <<>>))
        log == <<CallByIp(args.device_ip_address)>>
    IN  IF host.kind = "raise"
        THEN [result |-> host, calls |-> log]
        ELSE WakeAndPrint(host.value.NewMACAddress, log, env)

\* WakeByIp that wakes before it has the answer of the lookup.
WakeByIpWakeFirst(args, env) ==
    LET woken == WakeAndPrint(args.device_ip_address, <<>>, env)
        host == get_specific_host_entry_by_ip(args.device_ip_address,
                                              FaultOf(env, woken.calls))
        log == Append(woken.calls, CallByIp(args.device_ip_address))
    IN  IF host.kind = "raise"
        THEN [result |-> Raise("FritzArgumentError"), calls |-> log]
        ELSE [result |-> woken.result, calls |-> log]

\* Lines 41-47 and 59-60: the MAC address of the host with the IP address.
WakeByIp(args, env) ==
    LET host == get_specific_host_entry_by_ip(args.device_ip_address,
                                              FaultOf(env, <<>>))
        log == <<CallByIp(args.device_ip_address)>>
    IN  IF host.kind = "raise"
        THEN IF host.error \in {"FritzArgumentError", "FritzLookUpError"}
             THEN [result |-> Raise("FritzArgumentError"), calls |-> log]
             ELSE [result |-> host, calls |-> log]
        ELSE WakeAndPrint(host.value.NewMACAddress, log, env)

\* WakeByName that compares the names as they are written.
WakeByNameCaseSensitive(args, env) ==
    LET scan == ScanLoop(NewGenerator, args.device_name, <<CallEntries>>, env)
    IN  IF scan.found
        THEN WakeAndPrint(scan.mac, scan.calls, env)
        ELSE [result |-> Raise(scan.error), calls |-> scan.calls]

\* Lines 49-57 and 59-60: the MAC address of the first host of the name.
WakeByName(args, env) ==
    LET scan == ScanLoop(NewGenerator, Lower(args.device_name),
                         <<CallEntries>>, env)
    IN  IF scan.found
        THEN WakeAndPrint(scan.mac, scan.calls, env)
        ELSE [result |-> Raise(scan.error), calls |-> scan.calls]

wake_host(args, env) ==
    IF Truthy(args.device_mac_address) THEN WakeByMac(args, env)
    ELSE IF Truthy(args.device_ip_address) THEN WakeByIp(args, env)
    ELSE IF Truthy(args.device_name) THEN WakeByName(args, env)
    ELSE \* no branch has bound mac when line 59 reads it
         [result |-> Raise("UnboundLocalError"), calls |-> <<>>]

----------------------------------------------------------------------------
\* One library call on a FritzHosts object over a router with some host
\* table.  The calls keep no state of their own, so a run makes one call.

ArgMacs == {None, <<>>, <<"m", "1">>, <<"m", "9">>}

ArgIps == {None, <<>>, <<"i", "1">>, <<"i", "2">>, <<"i", "9">>}

ArgNames == {None, <<>>, <<"P", "c">>, <<"N", "A", "S">>, <<"t", "v">>}

Done(name, args, env, r) ==
    /\ pc' = "done"
    /\ op' = [name |-> name, args |-> args, env |-> env]
    /\ calls' = r.calls
    /\ result' = r.result
    /\ UNCHANGED <<hosts, doc, gens>>

WakeHost ==
    /\ pc = "idle"
    /\ \E mac \in ArgMacs, ip \in ArgIps, name \in ArgNames,
          env \in Envs(Len(hosts)) :
          LET args == [device_mac_address |-> mac,
                       device_ip_address |-> ip,
                       device_name |-> name]
          IN  Done("wake_host", args, env, wake_host(args, env))

GetHostStatus ==
    /\ pc = "idle"
    /\ \E mac \in ArgMacs \ {None}, env \in Envs(0) :
          Done("get_host_status", [mac_address |-> mac], env,
               get_host_status(mac, env))

GetHostsInfo ==
    /\ pc = "idle"
    /\ \E env \in Envs(Len(hosts)) :
          Done("get_hosts_info", [none |-> TRUE], env, get_hosts_info(env))

GetGenericHostEntries ==
    /\ pc = "idle"
    /\ \E env \in Envs(Len(hosts)) :
          Done("get_generic_host_entries", [none |-> TRUE], env,
               get_generic_host_entries(env))

GetActiveHosts ==
    /\ pc = "idle"
    /\ \E env \in Envs(Len(hosts)) :
          Done("get_active_hosts", [none |-> TRUE], env, get_active_hosts(env))

Init ==
    /\ hosts \in {TableOf(f) : f \in HostTables}
    /\ doc = <<>>
    /\ gens = <<>>
    /\ pc = "idle"
    /\ op = [name |-> "none"]
    /\ calls = <<>>
    /\ result = ReturnNone

Next ==
    \/ WakeHost
    \/ GetHostStatus
    \/ GetHostsInfo
    \/ GetActiveHosts
    \/ GetGenericHostEntries

Spec == Init /\ [][Next]_vars

----------------------------------------------------------------------------
\* Consumers of get_generic_host_entries(): each holds a generator object and
\* asks it for items, one next() at a time, interleaved in any order with
\* the others, and may drop the object at any point.
\*
\* gens[g].gen is the generator object; beside it are recorded the items it
\* has yielded, the indices it has asked of get_generic_host_entry, the
\* number of next() requests made on it, whether the router has failed one
\* of its remote calls, and what the last next() gave ("yield",
\* "StopIteration" or the class of the exception that left it).

NoGenerator ==
    [gen |-> [state |-> "none", index |-> 0], yielded |-> <<>>,
     called |-> <<>>, nexts |-> 0, faulted |-> FALSE, last |-> "none"]

\* gen = fh.get_generic_host_entries(): the body does not run yet.
Invoke(g) ==
    /\ gens[g].gen.state = "none"
    /\ gens' = [gens EXCEPT ![g] = [NoGenerator EXCEPT !.gen = NewGenerator]]
    /\ UNCHANGED <<hosts, doc, pc, op, calls, result>>

\* next(gen), also the one a for statement makes for each turn.
NextItem(g) ==
    /\ gens[g].gen.state # "none"
    /\ gens[g].nexts < Len(gens[g].called) + MaxSpent
    /\ \E fault \in {NoFault} \cup FaultKinds :
          LET step == Resume(gens[g].gen, fault)
          IN  gens' = [gens EXCEPT ![g] =
                  [gen |-> step.gen,
                   yielded |-> IF step.out.kind = "yield"
                               THEN Append(@.yielded, step.out.value)
                               ELSE @.yielded,
                   called |-> @.called \o step.called,
                   nexts |-> @.nexts + 1,
                   faulted |-> @.faulted
                                 \/ (fault # NoFault /\ step.called # <<>>),
                   last |-> IF step.out.kind = "yield" THEN "yield"
                            ELSE step.out.error]]
    /\ UNCHANGED <<hosts, doc, pc, op, calls, result>>

\* The consumer drops the generator object (a break out of the for
\* statement, as in wake_host, or the end of the enumeration).
Abandon(g) ==
    /\ gens[g].gen.state # "none"
    /\ gens' = [gens EXCEPT ![g] = NoGenerator]
    /\ UNCHANGED <<hosts, doc, pc, op, calls, result>>

\* The enumeration reads of the host table its length only, so one table
\* of each length is enumerated.
EnumTables ==
    {[k \in 1..n |-> <<<<"n", "a", "s">>, k % 2 = 1>>] : n \in 0..MaxHosts}

InitEnum ==
    /\ hosts \in {TableOf(f) : f \in EnumTables}
    /\ doc = <<>>
    /\ gens = [g \in 1..NumGens |-> NoGenerator]
    /\ pc = "idle"
    /\ op = [name |-> "none"]
    /\ calls = <<>>
    /\ result = ReturnNone

NextEnum == \E g \in 1..NumGens : Invoke(g) \/ NextItem(g) \/ Abandon(g)

SpecEnum == InitEnum /\ [][NextEnum]_vars

----------------------------------------------------------------------------
\* The call-forwarding list (fritzcallforwarding.py).
\*
\* The blob is the deflection list as the router writes it: the child
\* elements of the root in document order, each with its tag and the
\* character content of its five children.  A blocked number is an Item
\* whose DeflectionToNumber has no content.

Contents(k) ==
    [DeflectionId : {<<Digit(k - 1)>>},
     Enable : {<<"0">>, <<"1">>, <<"1", "0">>},
     Type : {<<"f", "r", "o", "m">>},
     Number : {<<"8", Digit(k)>>},
     DeflectionToNumber : {<<>>, <<"5", Digit(k)>>}]

Element(tag, c) ==
    [tag |-> tag, DeflectionId |-> c.DeflectionId, Enable |-> c.Enable,
     Type |-> c.Type, Number |-> c.Number,
     DeflectionToNumber |-> c.DeflectionToNumber]

Blobs ==
    UNION {{[k \in 1..n |-> Element(f[k][1], f[k][2])] :
               f \in {h \in [1..n -> {"Item", "Other"}
                                     \X UNION {Contents(j) : j \in 1..n}] :
                         \A k \in 1..n : h[k][2] \in Contents(k)}} :
           n \in 0..MaxItems}

\* Element.text: None for an element without content.
Text(content) == IF content = <<>> THEN None ELSE content

DigitValue(c) ==
    CASE c = "0" -> 0 [] c = "1" -> 1 [] c = "2" -> 2 [] c = "3" -> 3
      [] c = "4" -> 4 [] c = "5" -> 5 [] c = "6" -> 6 [] c = "7" -> 7
      [] c = "8" -> 8 [] OTHER -> 9

\* int(text) of a text of decimal digits.
RECURSIVE IntOf(_)
IntOf(text) ==
    IF text = <<>> THEN 0
    ELSE 10 * IntOf(SubSeq(text, 1, Len(text) - 1))
             + DigitValue(text[Len(text)])

\* element_tree.findall('Item'): the children of that tag, in document
\* order.
RECURSIVE FindAll(_, _)
FindAll(children, tag) ==
    IF children = <<>> THEN <<>>
    ELSE (IF Head(children).tag = tag THEN <<Head(children)>> ELSE <<>>)
             \o FindAll(Tail(children), tag)

\* CallForwarding with bool() applied to the integer (True is 1, False 0).
CallForwardingAsBool(element) ==
    [uid |-> Text(element.DeflectionId),
     from_number |-> Text(element.Number),
     to_number |-> Text(element.DeflectionToNumber),
     connection_type |-> Text(element.Type),
     enabled |-> IF IntOf(Text(element.Enable)) # 0 THEN 1 ELSE 0]

\* The dict appended for one Item.
CallForwarding(element) ==
    [uid |-> Text(element.DeflectionId),
     from_number |-> Text(element.Number),
     to_number |-> Text(element.DeflectionToNumber),
     connection_type |-> Text(element.Type),
     enabled |-> IntOf(Text(element.Enable))]

\* ParseLoop without the test of to_number.
RECURSIVE ParseLoopUnfiltered(_, _, _)
ParseLoopUnfiltered(elements, filter_blocked, call_forwardings) ==
    IF elements = <<>> THEN call_forwardings
    ELSE ParseLoopUnfiltered(Tail(elements), filter_blocked,
             Append(call_forwardings, CallForwarding(Head(elements))))

\* for element in element_tree.findall('Item'): ...
RECURSIVE ParseLoop(_, _, _)
ParseLoop(elements, filter_blocked, call_forwardings) ==
    IF elements = <<>> THEN call_forwardings
    ELSE LET element == Head(elements)
             to_number == Text(element.DeflectionToNumber)
         IN  IF filter_blocked
             THEN IF to_number # None
                  THEN ParseLoop(Tail(elements), filter_blocked,
                           Append(call_forwardings, CallForwarding(element)))
                  ELSE ParseLoop(Tail(elements), filter_blocked,
                           call_forwardings)
             ELSE ParseLoop(Tail(elements), filter_blocked,
                      Append(call_forwardings, CallForwarding(element)))

parse_call_forwarding_list(call_forwarding_list, filter_blocked) ==
    ParseLoop(FindAll(call_forwarding_list, "Item"), filter_blocked, <<>>)

ParseCallForwardingList ==
    /\ pc = "idle"
    /\ \E filter_blocked \in BOOLEAN :
          /\ pc' = "done"
          /\ op' = [name |-> "parse_call_forwarding_list",
                    args |-> [filter_blocked |-> filter_blocked]]
          /\ result' = Return(parse_call_forwarding_list(doc, filter_blocked))
    /\ UNCHANGED <<hosts, doc, gens, calls>>

\* The remote actions of the service X_AVM-DE_OnTel the methods perform.
CallSetDeflectionEnable(uid, enable) ==
    [method |-> "SetDeflectionEnable", NewDeflectionId |-> uid,
     NewEnable |-> enable]

CallGetDeflection(uid) ==
    [method |-> "GetDeflection", NewDeflectionId |-> uid]

\* The positions of the deflection of that id in the router's list.
Deflections(list, uid) ==
    {k \in DOMAIN list : list[k].tag = "Item" /\ list[k].DeflectionId = uid}

\* The router switches the deflection and answers, or answers and leaves
\* it as it is (applied false), or fails the action.
SetDeflectionEnable(list, uid, enable, fault, applied) ==
    IF fault # NoFault THEN [out |-> Raise(fault), list |-> list]
    ELSE IF Deflections(list, uid) = {}
    THEN [out |-> Raise("FritzArgumentError"), list |-> list]
    ELSE [out |-> ReturnNone,
          list |-> IF applied
                   THEN [k \in DOMAIN list |->
                            IF k \in Deflections(list, uid)
                            THEN [list[k] EXCEPT !.Enable = <<Digit(enable)>>]
                            ELSE list[k]]
                   ELSE list]

GetDeflection(list, uid, fault) ==
    IF fault # NoFault THEN Raise(fault)
    ELSE IF Deflections(list, uid) = {} THEN Raise("FritzArgumentError")
    ELSE LET item == list[CHOOSE k \in Deflections(list, uid) : TRUE]
         IN  Return([NewNumber |-> Text(item.Number),
                     NewDeflectionToNumber |-> Text(item.DeflectionToNumber),
                     NewType |-> Text(item.Type),
                     NewEnable |-> item.Enable])

get_call_forwarding_by_uid(list, uid, fault) ==
    LET deflection_dict == GetDeflection(list, uid, fault)
    IN  IF deflection_dict.kind = "raise" THEN deflection_dict
        ELSE Return([uid |-> uid,
                     from_number |-> deflection_dict.value.NewNumber,
                     to_number |-> deflection_dict.value.NewDeflectionToNumber,
                     connection_type |-> deflection_dict.value.NewType,
                     enabled |-> IntOf(deflection_dict.value.NewEnable)])

get_call_forwarding_status_by_uid(list, uid, fault) ==
    LET info == get_call_forwarding_by_uid(list, uid, fault)
    IN  IF info.kind = "raise" THEN info ELSE Return(info.value.enabled)

\* set_call_forwarding that returns the value it was asked to set.
set_call_forwarding_echo(list, uid, enable, env, applied) ==
    LET set == SetDeflectionEnable(list, uid, enable, FaultOf(env, <<>>),
                                   applied)
        log == <<CallSetDeflectionEnable(uid, enable)>>
    IN  IF set.out.kind = "raise"
        THEN [result |-> set.out, calls |-> log, list |-> set.list]
        ELSE [result |-> Return(enable), calls |-> log, list |-> set.list]

\* The method over the router's list: what it gives back, the remote
\* actions it has performed and the list it leaves.
set_call_forwarding(list, uid, enable, env, applied) ==
    LET set == SetDeflectionEnable(list, uid, enable, FaultOf(env, <<>>),
                                   applied)
        log == <<CallSetDeflectionEnable(uid, enable)>>
    IN  IF set.out.kind = "raise"
        THEN [result |-> set.out, calls |-> log, list |-> set.list]
        ELSE [result |-> get_call_forwarding_status_by_uid(
                             set.list, uid, FaultOf(env, log)),
              calls |-> Append(log, CallGetDeflection(uid)),
              list |-> set.list]

ArgUids == {<<"0">>, <<"1">>, <<"9">>}

SetCallForwarding ==
    /\ pc = "idle"
    /\ \E uid \in ArgUids, enable \in {0, 1}, env \in Envs(0),
          applied \in BOOLEAN :
          LET r == set_call_forwarding(doc, uid, enable, env, applied)
          IN  /\ pc' = "done"
              /\ op' = [name |-> "set_call_forwarding",
                        args |-> [uid |-> uid, enable |-> enable],
                        env |-> env, applied |-> applied]
              /\ calls' = r.calls
              /\ result' = r.result
              /\ doc' = r.list
    /\ UNCHANGED <<hosts, gens>>

InitCF ==
    /\ hosts = <<>>
    /\ doc \in Blobs
    /\ gens = <<>>
    /\ pc = "idle"
    /\ op = [name |-> "none"]
    /\ calls = <<>>
    /\ result = ReturnNone

NextCF == ParseCallForwardingList \/ SetCallForwarding

SpecCF == InitCF /\ [][NextCF]_vars

----------------------------------------------------------------------------
\* Properties of the library calls.

\* How often the call has invoked a method.
Count(log, method) ==
    Cardinality({i \in DOMAIN log : log[i].method = method})

CasePairs ==
    {<<"p", "P">>, <<"c", "C">>, <<"n", "N">>, <<"a", "A">>, <<"s", "S">>,
     <<"t", "T">>, <<"v", "V">>}

\* Two strs that differ, if at all, in the case of their letters.
EqualIgnoringCase(s, t) ==
    /\ Len(s) = Len(t)
    /\ \A i \in 1..Len(s) :
          s[i] = t[i] \/ <<s[i], t[i]>> \in CasePairs
              \/ <<t[i], s[i]>> \in CasePairs

\* wake_host was called with a device name and neither MAC nor IP address.
OnlyName ==
    /\ op.name = "wake_host"
    /\ ~Truthy(op.args.device_mac_address)
    /\ ~Truthy(op.args.device_ip_address)
    /\ Truthy(op.args.device_name)

\* wake_host was called with an IP address and no MAC address.
OnlyIp ==
    /\ op.name = "wake_host"
    /\ ~Truthy(op.args.device_mac_address)
    /\ Truthy(op.args.device_ip_address)

Matching ==
    {k \in DOMAIN hosts :
        EqualIgnoringCase(hosts[k].NewHostName, op.args.device_name)}

FirstMatch == CHOOSE k \in Matching : \A j \in Matching : k <= j

\* What the router answers to the IP lookup of the call.
IpLookup ==
    get_specific_host_entry_by_ip(op.args.device_ip_address,
                                  FaultOf(op.env, <<>>))

\* C2: given a device name only, wake_host makes one enumeration and no IP
\* lookup; when a host of that name (letter case ignored) is enumerated, it
\* asks for the entries of index 0 up to the first such host and then
\* invokes wakeonlan_host once, with the MAC address of that first host.
NameWakesFirstMatch ==
    OnlyName =>
        /\ Count(calls, "get_generic_host_entries") = 1
        /\ Count(calls, "get_specific_host_entry_by_ip") = 0
        /\ (Matching # {} /\ op.env.at \notin 2..(FirstMatch + 1)) =>
              calls = <<CallEntries>>
                        \o [i \in 1..FirstMatch |-> CallEntry(i - 1)]
                        \o <<CallWake(hosts[FirstMatch].NewMACAddress)>>

NameWakesFirstMatchWitness ==
    /\ OnlyName
    /\ Cardinality(Matching) >= 2
    /\ hosts[FirstMatch].NewHostName # Lower(op.args.device_name)
    /\ result = ReturnNone
    /\ Count(calls, "wakeonlan_host") = 1

\* C3: when no enumerated host has the given name, or the IP lookup raises
\* FritzArgumentError or FritzLookUpError, wake_host raises
\* FritzArgumentError and does not invoke wakeonlan_host.
FailedResolutionRaises ==
    LET nameFails ==
            /\ OnlyName
            /\ Matching = {}
            /\ op.env.at \notin 2..(Len(hosts) + 2)
        ipFails ==
            /\ OnlyIp
            /\ IpLookup.kind = "raise"
            /\ IpLookup.error \in {"FritzArgumentError", "FritzLookUpError"}
    IN  (op.name = "wake_host" /\ (nameFails \/ ipFails)) =>
            /\ result = Raise("FritzArgumentError")
            /\ Count(calls, "wakeonlan_host") = 0

FailedResolutionRaisesWitness ==
    /\ OnlyIp
    /\ op.env.at = 1
    /\ op.env.kind = "FritzArgumentError"
    /\ \E k \in DOMAIN hosts : hosts[k].NewIPAddress = op.args.device_ip_address
    /\ result = Raise("FritzArgumentError")
    /\ calls = <<CallByIp(op.args.device_ip_address)>>

\* C4: given a MAC address, wake_host invokes wakeonlan_host with that MAC
\* address and invokes nothing else, whether a known host has it or not.
MacWakesDirectly ==
    (op.name = "wake_host" /\ Truthy(op.args.device_mac_address)) =>
        calls = <<CallWake(op.args.device_mac_address)>>

MacWakesDirectlyWitness ==
    /\ op.name = "wake_host"
    /\ Truthy(op.args.device_mac_address)
    /\ Len(hosts) >= 1
    /\ \A k \in DOMAIN hosts :
          hosts[k].NewMACAddress # op.args.device_mac_address
    /\ calls = <<CallWake(op.args.device_mac_address)>>
    /\ result = ReturnNone

\* C5: given an IP address only, and the lookup answering with a host,
\* wake_host invokes the IP lookup once, then wakeonlan_host with the MAC
\* address of that host, and nothing else.
IpLookupThenWake ==
    (OnlyIp /\ IpLookup.kind = "return") =>
        \E k \in DOMAIN hosts :
            /\ hosts[k].NewIPAddress = op.args.device_ip_address
            /\ calls = <<CallByIp(op.args.device_ip_address),
                         CallWake(hosts[k].NewMACAddress)>>

IpLookupThenWakeWitness ==
    /\ OnlyIp
    /\ ~Truthy(op.args.device_name)
    /\ Len(hosts) >= 2
    /\ op.args.device_ip_address = hosts[2].NewIPAddress
    /\ calls = <<CallByIp(hosts[2].NewIPAddress),
                 CallWake(hosts[2].NewMACAddress)>>
    /\ result = ReturnNone

\* What the router answers to the MAC lookup of the call.
MacLookup ==
    get_specific_host_entry(op.args.mac_address, FaultOf(op.env, <<>>))

\* C6: get_host_status returns None when the lookup raises
\* FritzArgumentError or FritzLookUpError, the NewActive of the answer when
\* the lookup succeeds, and raises what the lookup raises otherwise.
HostStatusSentinel ==
    op.name = "get_host_status" =>
        /\ (MacLookup.kind = "raise"
              /\ MacLookup.error \in {"FritzArgumentError", "FritzLookUpError"})
              => result = ReturnNone
        /\ (MacLookup.kind = "raise"
              /\ MacLookup.error \notin {"FritzArgumentError", "FritzLookUpError"})
              => result = Raise(MacLookup.error)
        /\ MacLookup.kind = "return" =>
              \E k \in DOMAIN hosts :
                  /\ hosts[k].NewMACAddress = op.args.mac_address
                  /\ result = Return(hosts[k].NewActive)

HostStatusSentinelWitness ==
    /\ op.name = "get_host_status"
    /\ op.env.at = 1
    /\ op.env.kind = "FritzArgumentError"
    /\ result = ReturnNone

\* out holds the elements of in whose status is true, and no others, in
\* the order they have in in.
IsActivePartOf(out, in) ==
    \E f \in [1..Len(out) -> 1..Len(in)] :
        /\ \A i, j \in 1..Len(out) : i < j => f[i] < f[j]
        /\ \A i \in 1..Len(out) : out[i] = in[f[i]]
        /\ \A j \in 1..Len(in) :
              in[j].status <=> \E i \in 1..Len(out) : f[i] = j

\* C8: get_active_hosts returns the records of get_hosts_info, over the
\* same host table, whose status is true, and no others, in the same order.
ActiveHostsAreFilteredInfo ==
    (op.name = "get_active_hosts"
        /\ get_hosts_info(op.env).result.kind = "return") =>
        /\ result.kind = "return"
        /\ IsActivePartOf(result.value, get_hosts_info(op.env).result.value)

ActiveHostsAreFilteredInfoWitness ==
    /\ op.name = "get_active_hosts"
    /\ result.kind = "return"
    /\ Len(hosts) >= 2
    /\ ~hosts[1].NewActive
    /\ hosts[2].NewActive
    /\ Len(result.value) = Len(hosts) - 1

SevenKeys ==
    {"ip", "name", "mac", "status", "interface_type", "address_source",
     "lease_time_remaining"}

\* C9: get_hosts_info returns one record for each known host, in index
\* order, with the seven keys and under each the value of the raw entry's
\* field of that key.
HostsInfoMapsSevenKeys ==
    (op.name = "get_hosts_info" /\ op.env.at \notin 1..(Len(hosts) + 1)) =>
        /\ result.kind = "return"
        /\ Len(result.value) = Len(hosts)
        /\ \A k \in DOMAIN hosts :
              /\ DOMAIN result.value[k] = SevenKeys
              /\ result.value[k].ip = hosts[k].NewIPAddress
              /\ result.value[k].name = hosts[k].NewHostName
              /\ result.value[k].mac = hosts[k].NewMACAddress
              /\ result.value[k].status = hosts[k].NewActive
              /\ result.value[k].interface_type = hosts[k].NewInterfaceType
              /\ result.value[k].address_source = hosts[k].NewAddressSource
              /\ result.value[k].lease_time_remaining
                    = hosts[k].NewLeaseTimeRemaining

HostsInfoMapsSevenKeysWitness ==
    /\ op.name = "get_hosts_info"
    /\ result.kind = "return"
    /\ Len(hosts) >= 2
    /\ Len(result.value) = Len(hosts)
    /\ "NewX_AVM_DE_Speed" \in DOMAIN hosts[1]

----------------------------------------------------------------------------
\* Properties of the enumeration.

\* The indices 0, 1, ..., n - 1 in this order.
Indices(n) == [i \in 1..n |-> i - 1]

\* C1: a generator whose remote calls the router has answered as its table
\* of n hosts says, and which has asked for index n, has yielded the n
\* entries in index order, has ended with StopIteration, and has asked for
\* the indices 0..n in this order and for nothing else; however many
\* next() requests follow.
FullEnumeration ==
    \A g \in DOMAIN gens :
        (~gens[g].faulted /\ gens[g].gen.state # "none") =>
            /\ Len(gens[g].called) <= Len(hosts) + 1
            /\ Len(gens[g].called) = Len(hosts) + 1 =>
                  /\ gens[g].gen.state = "finished"
                  /\ gens[g].last = "StopIteration"
                  /\ gens[g].yielded = hosts
                  /\ gens[g].called = Indices(Len(hosts) + 1)
            /\ gens[g].gen.state = "finished" =>
                  Len(gens[g].called) = Len(hosts) + 1

FullEnumerationWitness ==
    \E g \in DOMAIN gens :
        /\ ~gens[g].faulted
        /\ gens[g].gen.state = "finished"
        /\ Len(hosts) >= 2
        /\ gens[g].yielded = hosts
        /\ gens[g].nexts = Len(hosts) + 2

\* C10: a generator makes no remote call when it is made, and one for each
\* next() request while it has not ended: index i is asked for by request
\* i + 1 and not before, so that a consumer holding k items has caused k
\* remote calls, for the indices 0..k-1; and this holds of every generator
\* whatever the other generators, made before or after, have consumed.
LazyAndRestartable ==
    \A g \in DOMAIN gens :
        /\ gens[g].called = Indices(Len(gens[g].called))
        /\ Len(gens[g].called) <= gens[g].nexts
        /\ gens[g].gen.state = "created" =>
              gens[g].called = <<>> /\ gens[g].yielded = <<>>
        /\ gens[g].gen.state = "suspended" =>
              /\ Len(gens[g].called) = Len(gens[g].yielded)
              /\ gens[g].nexts = Len(gens[g].yielded)
              /\ gens[g].yielded = SubSeq(hosts, 1, Len(gens[g].yielded))

LazyAndRestartableWitness ==
    \E g, h \in DOMAIN gens :
        /\ gens[g].gen.state = "suspended"
        /\ Len(gens[g].yielded) = 1
        /\ Len(hosts) >= 2
        /\ gens[h].gen.state = "finished"
        /\ Len(gens[h].called) = Len(hosts) + 1

----------------------------------------------------------------------------
\* Properties of the call-forwarding parser.

\* out holds a record for each element of blob at a position of keep, and
\* no others, in document order.
IsRecordsOf(out, blob, keep) ==
    \E f \in [1..Len(out) -> DOMAIN blob] :
        /\ \A i, j \in 1..Len(out) : i < j => f[i] < f[j]
        /\ {f[i] : i \in 1..Len(out)} = keep
        /\ \A i \in 1..Len(out) :
              /\ out[i].uid = blob[f[i]].DeflectionId
              /\ out[i].from_number = blob[f[i]].Number
              /\ out[i].connection_type = blob[f[i]].Type
              /\ out[i].to_number =
                    IF blob[f[i]].DeflectionToNumber = <<>> THEN None
                    ELSE blob[f[i]].DeflectionToNumber

\* out is in, with some elements left out.
IsSubsequence(out, in) ==
    \E f \in [1..Len(out) -> 1..Len(in)] :
        /\ \A i, j \in 1..Len(out) : i < j => f[i] < f[j]
        /\ \A i \in 1..Len(out) : out[i] = in[f[i]]

\* C7: with filter_blocked the parser returns a record for each Item whose
\* DeflectionToNumber has a text, without it a record for each Item, in
\* document order both times; the filtered list is the unfiltered one with
\* the records without to_number left out.
ParseFiltersBlocked ==
    op.name = "parse_call_forwarding_list" =>
        LET items == {k \in DOMAIN doc : doc[k].tag = "Item"}
            forwarded == {k \in items : doc[k].DeflectionToNumber # <<>>}
        IN  /\ result.kind = "return"
            /\ IsRecordsOf(result.value, doc,
                           IF op.args.filter_blocked THEN forwarded
                           ELSE items)
            /\ IsSubsequence(parse_call_forwarding_list(doc, TRUE),
                             parse_call_forwarding_list(doc, FALSE))
            /\ \A i \in DOMAIN result.value :
                  op.args.filter_blocked => result.value[i].to_number # None

ParseFiltersBlockedWitness ==
    /\ op.name = "parse_call_forwarding_list"
    /\ op.args.filter_blocked
    /\ Len(doc) >= 2
    /\ \A k \in DOMAIN doc : doc[k].tag = "Item"
    /\ doc[1].DeflectionToNumber = <<>>
    /\ Len(result.value) = Len(doc) - 1
    /\ Len(parse_call_forwarding_list(doc, FALSE)) = Len(doc)

\* C11: set_call_forwarding performs SetDeflectionEnable for the uid and
\* the value first; when that fails it performs nothing more and raises the
\* failure; otherwise it performs one GetDeflection for the uid and returns
\* the Enable value the router holds then (or raises the failure of the
\* read).
ToggleThenReadBack ==
    op.name = "set_call_forwarding" =>
        LET toggle == CallSetDeflectionEnable(op.args.uid, op.args.enable)
            read == CallGetDeflection(op.args.uid)
            held == Deflections(doc, op.args.uid)
        IN  IF op.env.at = 1 \/ held = {}
            THEN /\ calls = <<toggle>>
                 /\ result.kind = "raise"
                 /\ op.env.at = 1 => result = Raise(op.env.kind)
            ELSE /\ calls = <<toggle, read>>
                 /\ op.env.at = 2 => result = Raise(op.env.kind)
                 /\ op.env.at # 2 =>
                       \E k \in held : result = Return(IntOf(doc[k].Enable))

ToggleThenReadBackWitness ==
    /\ op.name = "set_call_forwarding"
    /\ ~op.applied
    /\ Len(calls) = 2
    /\ result.kind = "return"
    /\ result.value # op.args.enable

\* The decimal numeral of a natural number.
RECURSIVE DecimalOf(_)
DecimalOf(n) ==
    IF n < 10 THEN <<Digit(n)>>
    ELSE DecimalOf(n \div 10) \o <<Digit(n % 10)>>

\* The Item of the blob a record was built of.
ItemOf(record) ==
    doc[CHOOSE k \in DOMAIN doc :
            doc[k].tag = "Item" /\ doc[k].DeflectionId = record.uid]

\* C12 as claimed: enabled is a bool, False for the Enable text "0" and
\* True for every other integer text.  (A Python bool is the integer 1 or
\* 0: True == 1 and False == 0.)
EnabledIsBool ==
    op.name = "parse_call_forwarding_list" =>
        \A i \in DOMAIN result.value :
            result.value[i].enabled =
                IF ItemOf(result.value[i]).Enable = <<"0">> THEN 0 ELSE 1

\* C12, amended: enabled is the integer the Enable text is the numeral of,
\* as int() gives it and not converted further: 0 for "0", 1 for "1", 10
\* for "10".
EnabledIsInt ==
    op.name = "parse_call_forwarding_list" =>
        \A i \in DOMAIN result.value :
            /\ result.value[i].enabled \in Nat
            /\ DecimalOf(result.value[i].enabled)
                  = ItemOf(result.value[i]).Enable

EnabledIsIntWitness ==
    /\ op.name = "parse_call_forwarding_list"
    /\ \E i \in DOMAIN result.value :
          /\ ItemOf(result.value[i]).Enable = <<"1", "0">>
          /\ result.value[i].enabled = 10

\* C13: when the router fails a per-index call of get_hosts_info, or of a
\* full enumeration by get_generic_host_entries, with an error that is not
\* the IndexError of an index past the table, the call raises that error,
\* returns no list, and has asked for no index after the failed one.
OnlyIndexErrorEnds ==
    /\ (op.name = "get_hosts_info" /\ op.env.at \in 1..(Len(hosts) + 1)) =>
          /\ result = Raise(op.env.kind)
          /\ calls = [i \in 1..op.env.at |-> CallEntry(i - 1)]
    /\ (op.name = "get_generic_host_entries"
          /\ op.env.at \in 2..(Len(hosts) + 2)) =>
          /\ result = Raise(op.env.kind)
          /\ calls = <<CallEntries>>
                       \o [i \in 1..(op.env.at - 1) |-> CallEntry(i - 1)]

OnlyIndexErrorEndsWitness ==
    /\ op.name = "get_hosts_info"
    /\ Len(hosts) >= 2
    /\ op.env.at = 2
    /\ op.env.kind = "FritzLookUpError"
    /\ result = Raise("FritzLookUpError")
    /\ Len(calls) = 2

====
